---- MODULE Spec2Model ----
(***************************************************************************)
(* Model of GeometryProcessor (src/src/geometry.py): the pipeline          *)
(*   find_polygons = intersect -> split -> build graph -> extract faces    *)
(*                   -> validate -> de-nest.                               *)
(*                                                                         *)
(* Numbers.  The code computes on Python floats; the model computes on     *)
(* exact rationals.  A raw point is a triple <<X, Y, D>>, D > 0, standing  *)
(* for (X/D, Y/D) measured in grid units; one grid unit is                 *)
(* 10^-Precision = 0.1, the grid _round_point rounds to.  Triples are kept *)
(* in lowest terms, so equality of triples is equality of points (the      *)
(* exact equality a Python set of complex uses).  A graph node is a        *)
(* rounded point <<X, Y>> with integer grid coordinates.                   *)
(* The specification FloatSpec follows the intersector alone, on pairs of  *)
(* segments, with every operation rounded as binary64 rounds it.           *)
(***************************************************************************)
EXTENDS Integers, Sequences, FiniteSets, TLC

VARIABLES
    pc,             \* position in find_polygons / the extraction pass
    calls,          \* number of find_polygons calls made on this processor
    first,          \* argument of the first call (history)
    first_result,   \* value the first call returned (history)
    tieUp,          \* how this build rounds a coordinate exactly half-way
    line_segments,  \* argument of the running call
    segments,       \* self.segments
    intersections,  \* self.intersections
    split_segments, \* local of find_polygons
    graph,          \* local of find_polygons: [keys: insertion order, adj]
    cycles,         \* _find_cycles_in_graph: cycles
    visited_edges,  \* _find_cycles_in_graph: visited_edges
    cursor,         \* _find_cycles_in_graph: <<i, j>> of the two for loops
    path,           \* _find_cycle_from_edge: path (its last element is current)
    valid_polygons, \* _validate_polygons: valid_polygons
    result,         \* value returned by the last completed call
    other           \* position of a second invocation on the same processor

vars == <<pc, calls, first, first_result, tieUp, line_segments, segments, intersections,
          split_segments, graph, cycles, visited_edges, cursor, path,
          valid_polygons, result, other>>

-----------------------------------------------------------------------------
(* Program constants *)

\* tolerance = TolNum / TolDen = 0.1 (default of __init__, used by main and tests)
TolNum == 1
TolDen == 10
\* precision = int(-log10(tolerance)) decimals
Precision == 1
\* grid units per 1.0
Scale == 10 ^ Precision
\* "Max 6 sides as specified"
MaxSides == 6

None == <<>>
ZeroDivisionError == <<"ZeroDivisionError">>

-----------------------------------------------------------------------------
(* Exact arithmetic *)

Abs(x) == IF x < 0 THEN -x ELSE x
Sgn(x) == IF x < 0 THEN -1 ELSE IF x > 0 THEN 1 ELSE 0
Min(a, b) == IF a <= b THEN a ELSE b
Max(a, b) == IF a >= b THEN a ELSE b

\* the one element of a singleton set
The(S) == CHOOSE r \in S : TRUE

RECURSIVE Gcd(_, _)
Gcd(a, b) == IF b = 0 THEN a ELSE Gcd(b, a % b)

Lcm(a, b) == (a \div Gcd(a, b)) * b

\* self.tolerance as a length in grid units, LinN / LinD, and as an area in
\* squared grid units, AreaN / AreaD, both in lowest terms
LinN == (TolNum * Scale) \div Gcd(TolNum * Scale, TolDen)
LinD == TolDen \div Gcd(TolNum * Scale, TolDen)
AreaN == (TolNum * Scale * Scale) \div Gcd(TolNum * Scale * Scale, TolDen)
AreaD == TolDen \div Gcd(TolNum * Scale * Scale, TolDen)

RECURSIVE LcmOf(_)
LcmOf(S) == IF S = {} THEN 1
            ELSE LET d == CHOOSE e \in S : TRUE IN Lcm(d, LcmOf(S \ {d}))

\* the point (X/D, Y/D) in lowest terms
Norm(X, Y, D) ==
    LET g == Gcd(Gcd(Abs(X), Abs(Y)), Abs(D))
        s == Sgn(D)
    IN <<(s * X) \div g, (s * Y) \div g, (s * D) \div g>>

\* complex(x, y) for grid integers
Pt(x, y) == <<x, y, 1>>

\* numerators of p over the common denominator L
NumX(p, L) == p[1] * (L \div p[3])
NumY(p, L) == p[2] * (L \div p[3])

\* the fixed order in which a set of points is iterated (see SortFrom)
PointBefore(p, q) ==
    \/ p[1] * q[3] < q[1] * p[3]
    \/ p[1] * q[3] = q[1] * p[3] /\ p[2] * q[3] < q[2] * p[3]

-----------------------------------------------------------------------------
(* Segment Intersector *)

\* no test for parallel lines before the division
NeverParallel(denom, L) == FALSE

\* abs(denom) < self.tolerance, denom given over the denominator L^2
NearParallel(denom, L) == Abs(denom) * AreaD < AreaN * L * L

_line_intersection(seg1, seg2) ==
    LET p1 == seg1[1]
        p2 == seg1[2]
        p3 == seg2[1]
        p4 == seg2[2]
        L  == Lcm(Lcm(p1[3], p2[3]), Lcm(p3[3], p4[3]))
        x1 == NumX(p1, L)
        y1 == NumY(p1, L)
        x2 == NumX(p2, L)
        y2 == NumY(p2, L)
        x3 == NumX(p3, L)
        y3 == NumY(p3, L)
        x4 == NumX(p4, L)
        y4 == NumY(p4, L)
        denom == (x1 - x2) * (y3 - y4) - (y1 - y2) * (x3 - x4)
        tnum  == (x1 - x3) * (y3 - y4) - (y1 - y3) * (x3 - x4)
        unum  == -((x1 - x2) * (y1 - y3) - (y1 - y2) * (x1 - x3))
        s     == Sgn(denom)
    IN IF NearParallel(denom, L) THEN None
       ELSE IF denom = 0 THEN ZeroDivisionError
       ELSE IF /\ 0 <= s * tnum /\ s * tnum <= s * denom
               /\ 0 <= s * unum /\ s * unum <= s * denom
            THEN Norm(x1 * denom + tnum * (x2 - x1),
                      y1 * denom + tnum * (y2 - y1),
                      L * denom)
            ELSE None

\* the values _line_intersection returns over all pairs i < j
PairResults(segs) ==
    { _line_intersection(segs[i], segs[j]) :
        <<i, j>> \in { ij \in (1..Len(segs)) \X (1..Len(segs)) : ij[1] < ij[2] } }

\* self.intersections after _find_intersections, which adds to the set it finds
_find_intersections(segs, inters) ==
    inters \cup (PairResults(segs) \ {None, ZeroDivisionError})

-----------------------------------------------------------------------------
(* The arithmetic of lines 88-101 as Python carries it out: every operand    *)
(* and every result is a binary64 number, each operation gives the number    *)
(* nearest to the exact result, ties going to the even mantissa.  A natural  *)
(* number of any size is a sequence of limbs, the least significant first;   *)
(* a binary64 number is <<sign, mantissa, exponent>> for sign * mantissa *   *)
(* 2^exponent, the mantissa odd.  Exponents stay far inside the range of     *)
(* binary64 for the coordinates used.                                        *)

LimbBits == 15
Base == 2 ^ LimbBits
MantissaBits == 53

RECURSIVE Trim(_)
Trim(a) ==
    IF a = <<>> THEN a
    ELSE IF a[Len(a)] = 0 THEN Trim(SubSeq(a, 1, Len(a) - 1)) ELSE a

Limb(a, i) == IF i <= Len(a) THEN a[i] ELSE 0

RECURSIVE BigOf(_)
BigOf(n) == IF n = 0 THEN <<>> ELSE <<n % Base>> \o BigOf(n \div Base)

RECURSIVE AddFrom(_, _, _, _)
AddFrom(a, b, i, carry) ==
    IF i > Len(a) /\ i > Len(b) THEN BigOf(carry)
    ELSE <<(Limb(a, i) + Limb(b, i) + carry) % Base>>
         \o AddFrom(a, b, i + 1, (Limb(a, i) + Limb(b, i) + carry) \div Base)

BigAdd(a, b) == AddFrom(a, b, 1, 0)

RECURSIVE SubFrom(_, _, _, _)
SubFrom(a, b, i, borrow) ==
    IF i > Len(a) THEN <<>>
    ELSE IF a[i] - Limb(b, i) - borrow < 0
         THEN <<a[i] - Limb(b, i) - borrow + Base>> \o SubFrom(a, b, i + 1, 1)
         ELSE <<a[i] - Limb(b, i) - borrow>> \o SubFrom(a, b, i + 1, 0)

\* a - b for a >= b
BigSub(a, b) == Trim(SubFrom(a, b, 1, 0))

RECURSIVE CmpFrom(_, _, _)
CmpFrom(a, b, i) ==
    IF i = 0 THEN 0
    ELSE IF a[i] # b[i] THEN Sgn(a[i] - b[i]) ELSE CmpFrom(a, b, i - 1)

BigCmp(a, b) ==
    IF Len(a) # Len(b) THEN Sgn(Len(a) - Len(b)) ELSE CmpFrom(a, b, Len(a))

RECURSIVE MulSmallFrom(_, _, _, _)
MulSmallFrom(a, k, i, carry) ==
    IF i > Len(a) THEN BigOf(carry)
    ELSE <<(a[i] * k + carry) % Base>>
         \o MulSmallFrom(a, k, i + 1, (a[i] * k + carry) \div Base)

\* a * k for k < Base
BigMulSmall(a, k) == IF k = 0 THEN <<>> ELSE MulSmallFrom(a, k, 1, 0)

ShiftLimbs(a, n) == IF a = <<>> THEN a ELSE [i \in 1..n |-> 0] \o a

RECURSIVE MulFrom(_, _, _)
MulFrom(a, b, i) ==
    IF i > Len(b) THEN <<>>
    ELSE BigAdd(ShiftLimbs(BigMulSmall(a, b[i]), i - 1), MulFrom(a, b, i + 1))

BigMul(a, b) == MulFrom(a, b, 1)

\* the remainder of the limbs i and above of a, divided by k
RECURSIVE RemFrom(_, _, _)
RemFrom(a, k, i) ==
    IF i > Len(a) THEN 0 ELSE (RemFrom(a, k, i + 1) * Base + a[i]) % k

\* a \div k and a % k for k <= Base
BigDivSmall(a, k) ==
    Trim([i \in 1..Len(a) |-> (RemFrom(a, k, i + 1) * Base + a[i]) \div k])

BigModSmall(a, k) == RemFrom(a, k, 1)

\* a * 2^k and a \div 2^k
BigShl(a, k) == ShiftLimbs(BigMulSmall(a, 2 ^ (k % LimbBits)), k \div LimbBits)

BigShr(a, k) ==
    IF k \div LimbBits >= Len(a) THEN <<>>
    ELSE BigDivSmall(SubSeq(a, k \div LimbBits + 1, Len(a)), 2 ^ (k % LimbBits))

RECURSIVE Bits(_)
Bits(n) == IF n = 0 THEN 0 ELSE 1 + Bits(n \div 2)

\* the number of bits of a
BigBits(a) == IF a = <<>> THEN 0 ELSE LimbBits * (Len(a) - 1) + Bits(a[Len(a)])

RECURSIVE LowZeros(_)
LowZeros(n) == IF n % 2 = 1 THEN 0 ELSE 1 + LowZeros(n \div 2)

\* the number of zero bits below the lowest one bit of a, from limb i on
RECURSIVE BigLowZeros(_, _)
BigLowZeros(a, i) ==
    IF a[i] = 0 THEN LimbBits + BigLowZeros(a, i + 1) ELSE LowZeros(a[i])

\* the largest digit d in lo..hi with d * b <= r
RECURSIVE DigitIn(_, _, _, _)
DigitIn(r, b, lo, hi) ==
    IF lo >= hi THEN lo
    ELSE IF BigCmp(BigMulSmall(b, (lo + hi + 1) \div 2), r) <= 0
         THEN DigitIn(r, b, (lo + hi + 1) \div 2, hi)
         ELSE DigitIn(r, b, lo, (lo + hi + 1) \div 2 - 1)

\* a \div b and a % b by long division, a taken limb by limb from limb i down
RECURSIVE DivFrom(_, _, _, _, _)
DivFrom(a, b, i, quot, rem) ==
    IF i = 0 THEN <<quot, rem>>
    ELSE The({ DivFrom(a, b, i - 1, <<rd[2]>> \o quot, BigSub(rd[1], BigMulSmall(b, rd[2]))) :
               rd \in { The({ <<r, DigitIn(r, b, 0, Base - 1)>> :
                              r \in { Trim(<<a[i]>> \o rem) } }) } })

BigDivMod(a, b) ==
    The({ <<Trim(qr[1]), qr[2]>> : qr \in { DivFrom(a, b, Len(a), <<>>, <<>>) } })

Zero64 == <<0, <<>>, 0>>

\* sign * M * 2^e with the zero bits at the low end of M moved to the exponent
Canon(s, M, e) ==
    IF M = <<>> THEN Zero64
    ELSE <<s, BigShr(M, BigLowZeros(M, 1)), e + BigLowZeros(M, 1)>>

\* the binary64 number nearest to sign * M * 2^e
RoundNearestEven(s, M, e) ==
    IF BigBits(M) <= MantissaBits THEN Canon(s, M, e)
    ELSE The({ The({ Canon(s, IF c > 0 \/ (c = 0 /\ q[1] % 2 = 1)
                              THEN BigAdd(q, <<1>>) ELSE q, e + k) :
                     c \in { BigCmp(BigSub(M, BigShl(q, k)), BigShl(<<1>>, k - 1)) } }) :
               <<k, q>> \in { <<BigBits(M) - MantissaBits,
                                BigShr(M, BigBits(M) - MantissaBits)>> } })

\* M and one bit below it that tells whether anything was left over
WithSticky(M, rest) == BigAdd(BigMulSmall(M, 2), IF rest = 0 THEN <<>> ELSE <<1>>)

\* float of the decimal n / d: the binary64 number nearest to it
Float64(n, d) ==
    IF n = 0 THEN Zero64
    ELSE The({ RoundNearestEven(Sgn(n), WithSticky(BigDivSmall(N, d), BigModSmall(N, d)), -71) :
               N \in { BigShl(BigOf(Abs(n)), 70) } })

\* the mantissa of a at the exponent e
Aligned(a, e) == BigShl(a[2], a[3] - e)

\* |a| against |b|: -1, 0 or 1
FCmpAbs(a, b) ==
    IF a[1] = 0 \/ b[1] = 0 THEN Abs(a[1]) - Abs(b[1])
    ELSE BigCmp(Aligned(a, Min(a[3], b[3])), Aligned(b, Min(a[3], b[3])))

FNeg(a) == <<-a[1], a[2], a[3]>>

\* a + b
FAdd(a, b) ==
    IF a[1] = 0 THEN b
    ELSE IF b[1] = 0 THEN a
    ELSE The({ IF a[1] = b[1] THEN RoundNearestEven(a[1], BigAdd(x, y), e)
               ELSE IF BigCmp(x, y) = 0 THEN Zero64
               ELSE IF BigCmp(x, y) > 0 THEN RoundNearestEven(a[1], BigSub(x, y), e)
               ELSE RoundNearestEven(b[1], BigSub(y, x), e) :
               <<e, x, y>> \in { <<Min(a[3], b[3]), Aligned(a, Min(a[3], b[3])),
                                   Aligned(b, Min(a[3], b[3]))>> } })

\* a - b
FSub(a, b) == FAdd(a, FNeg(b))

\* a * b
FMul(a, b) ==
    IF a[1] = 0 \/ b[1] = 0 THEN Zero64
    ELSE RoundNearestEven(a[1] * b[1], BigMul(a[2], b[2]), a[3] + b[3])

\* a / b for b # 0: the quotient is taken to 56 bits or more
FDiv(a, b) ==
    IF a[1] = 0 THEN Zero64
    ELSE The({ The({ RoundNearestEven(a[1] * b[1],
                                      WithSticky(qr[1], Len(qr[2])), a[3] - b[3] - k - 1) :
                     qr \in { BigDivMod(BigShl(a[2], k), b[2]) } }) :
               k \in { Max(0, 56 + BigBits(b[2]) - BigBits(a[2])) } })

\* 0 <= a <= 1
InUnit(a) == a[1] >= 0 /\ FCmpAbs(a, <<1, <<1>>, 0>>) <= 0

\* a raw point as Python holds it: each coordinate the float of its decimal
Complex64(p) == <<Float64(p[1] * TolNum, p[3] * TolDen), Float64(p[2] * TolNum, p[3] * TolDen)>>

\* _line_intersection on binary64 numbers
LineIntersection64(seg1, seg2) ==
    The({ The({ IF FCmpAbs(denom, Float64(TolNum, TolDen)) < 0 THEN None
                ELSE The({ IF InUnit(tu[1]) /\ InUnit(tu[2])
                           THEN <<FAdd(p[1][1], FMul(tu[1], FSub(p[2][1], p[1][1]))),
                                  FAdd(p[1][2], FMul(tu[1], FSub(p[2][2], p[1][2])))>>
                           ELSE None :
                           tu \in { << FDiv(FSub(FMul(FSub(p[1][1], p[3][1]), FSub(p[3][2], p[4][2])),
                                                 FMul(FSub(p[1][2], p[3][2]), FSub(p[3][1], p[4][1]))),
                                            denom),
                                       FDiv(FNeg(FSub(FMul(FSub(p[1][1], p[2][1]), FSub(p[1][2], p[3][2])),
                                                      FMul(FSub(p[1][2], p[2][2]), FSub(p[1][1], p[3][1])))),
                                            denom) >> } }) :
                denom \in { FSub(FMul(FSub(p[1][1], p[2][1]), FSub(p[3][2], p[4][2])),
                                 FMul(FSub(p[1][2], p[2][2]), FSub(p[3][1], p[4][1]))) } }) :
          p \in { << Complex64(seg1[1]), Complex64(seg1[2]),
                     Complex64(seg2[1]), Complex64(seg2[2]) >> } })

-----------------------------------------------------------------------------
(* Segment Splitter *)

_point_on_segment(point, segment) ==
    LET start == segment[1]
        end   == segment[2]
        L  == Lcm(point[3], Lcm(start[3], end[3]))
        px == NumX(point, L)
        py == NumY(point, L)
        sx == NumX(start, L)
        sy == NumY(start, L)
        ex == NumX(end, L)
        ey == NumY(end, L)
        cross_product == (py - sy) * (ex - sx) - (px - sx) * (ey - sy)
        tol == LinN * L                \* tolerance * LinD over the denominator L
    IN IF Abs(cross_product) * AreaD > AreaN * L * L THEN FALSE
       ELSE /\ Min(sx, ex) * LinD - tol <= px * LinD
            /\ px * LinD <= Max(sx, ex) * LinD + tol
            /\ Min(sy, ey) * LinD - tol <= py * LinD
            /\ py * LinD <= Max(sy, ey) * LinD + tol

\* |p - q|^2 over the denominator L^2
Dist2(p, q, L) ==
    (NumX(p, L) - NumX(q, L)) * (NumX(p, L) - NumX(q, L))
  + (NumY(p, L) - NumY(q, L)) * (NumY(p, L) - NumY(q, L))

\* abs(p2 - p1) > self.tolerance
LongerThanTol(p1, p2) ==
    LET L == Lcm(p1[3], p2[3])
    IN Dist2(p1, p2, L) * LinD * LinD > LinN * LinN * L * L

\* sorted(set(points), key=distance_from_start): the sort is stable, so points
\* at the same distance stay in the set's iteration order; that order is a
\* function of the set's contents, represented here by PointBefore.
RECURSIVE SortFrom(_, _, _)
SortFrom(S, start, L) ==
    IF S = {} THEN <<>>
    ELSE LET m == CHOOSE p \in S : \A q \in S \ {p} :
                      \/ Dist2(p, start, L) < Dist2(q, start, L)
                      \/ Dist2(p, start, L) = Dist2(q, start, L) /\ PointBefore(p, q)
         IN <<m>> \o SortFrom(S \ {m}, start, L)

_sort_points_along_segment(points, start, end) ==
    SortFrom(points, start, LcmOf({ p[3] : p \in points } \cup {start[3]}))

\* lines 127-132: the consecutive pairs of the sorted points, from the i-th on,
\* that are longer than the tolerance
RECURSIVE Emit(_, _)
Emit(sorted, i) ==
    IF i > Len(sorted) - 1 THEN <<>>
    ELSE (IF LongerThanTol(sorted[i], sorted[i + 1])
          THEN << <<sorted[i], sorted[i + 1]>> >> ELSE <<>>)
         \o Emit(sorted, i + 1)

\* the sub-segments one segment contributes
SubSegments(segment, inters) ==
    LET start == segment[1]
        end   == segment[2]
        intersections_on_segment ==
            { p \in inters : _point_on_segment(p, segment) } \cup {start, end}
    IN Emit(_sort_points_along_segment(intersections_on_segment, start, end), 1)

RECURSIVE SplitFrom(_, _, _)
SplitFrom(segs, inters, k) ==
    IF k > Len(segs) THEN <<>>
    ELSE SubSegments(segs[k], inters) \o SplitFrom(segs, inters, k + 1)

_split_segments_at_intersections(segs, inters) == SplitFrom(segs, inters, 1)

-----------------------------------------------------------------------------
(* Planar Graph Builder *)

\* round(v, precision) of the coordinate n/d grid units; a value exactly
\* half-way between two grid values goes where this build's float arithmetic
\* puts it (tieUp)
RoundCoord(n, d, up) ==
    LET fl == n \div d
        r2 == 2 * (n - fl * d)
    IN IF r2 < d THEN fl
       ELSE IF r2 > d THEN fl + 1
       ELSE IF up THEN fl + 1 ELSE fl

_round_point(point, up) ==
    <<RoundCoord(point[1], point[3], up), RoundCoord(point[2], point[3], up)>>

EmptyGraph == [keys |-> <<>>, adj |-> <<>>]

\* position of node in the dict's insertion order, 0 if absent
RECURSIVE KeyIndexFrom(_, _, _)
KeyIndexFrom(keys, node, k) ==
    IF k > Len(keys) THEN 0
    ELSE IF keys[k] = node THEN k ELSE KeyIndexFrom(keys, node, k + 1)

KeyIndex(g, node) == KeyIndexFrom(g.keys, node, 1)

\* if key not in graph: graph[key] = []
WithKey(g, node) ==
    IF KeyIndex(g, node) # 0 THEN g
    ELSE [keys |-> Append(g.keys, node), adj |-> Append(g.adj, <<>>)]

\* graph[a].append(b)
WithNeighbor(g, a, b) ==
    [g EXCEPT !.adj[KeyIndex(g, a)] = Append(@, b)]

\* the edge recorded at its start node only
AddSegmentOneWay(g, seg, up) ==
    LET start_key == _round_point(seg[1], up)
        end_key   == _round_point(seg[2], up)
        g1 == WithKey(WithKey(g, start_key), end_key)
    IN WithNeighbor(g1, start_key, end_key)

AddSegment(g, seg, up) ==
    LET start_key == _round_point(seg[1], up)
        end_key   == _round_point(seg[2], up)
        g1 == WithKey(WithKey(g, start_key), end_key)
    IN WithNeighbor(WithNeighbor(g1, start_key, end_key), end_key, start_key)

\* the graph after the first n segments
RECURSIVE GraphUpTo(_, _, _)
GraphUpTo(segs, n, up) ==
    IF n = 0 THEN EmptyGraph
    ELSE The({ AddSegment(g, segs[n], up) : g \in { GraphUpTo(segs, n - 1, up) } })

_build_segment_graph(segs, up) == GraphUpTo(segs, Len(segs), up)

\* graph[node]
Neighbors(g, node) == g.adj[KeyIndex(g, node)]

-----------------------------------------------------------------------------
(* Face Extractor *)

\* tuple(sorted([a, b], key=lambda x: (x.real, x.imag)))
EdgeKey(a, b) ==
    IF b[1] < a[1] \/ (b[1] = a[1] /\ b[2] < a[2]) THEN <<b, a>> ELSE <<a, b>>

Elems(seq) == { seq[k] : k \in DOMAIN seq }

\* class of the angle (outgoing - incoming) mod 2 pi of w against v:
\* 0: zero, 1: in (0, pi), 2: pi, 3: in (pi, 2 pi)
AngleClass(v, w) ==
    LET c == v[1] * w[2] - v[2] * w[1]
        d == v[1] * w[1] + v[2] * w[2]
    IN IF c > 0 THEN 1
       ELSE IF c < 0 THEN 3
       ELSE IF d >= 0 THEN 0 ELSE 2

\* angle_diff of w1 < angle_diff of w2, both taken against the incoming vector v
AngleLess(v, w1, w2) ==
    \/ AngleClass(v, w1) < AngleClass(v, w2)
    \/ /\ AngleClass(v, w1) = AngleClass(v, w2)
       /\ AngleClass(v, w1) \in {1, 3}
       /\ w1[1] * w2[2] - w1[2] * w2[1] > 0

\* the loop of _choose_rightmost_neighbor: best so far, replaced on a strictly
\* smaller angle_diff
RECURSIVE BestFrom(_, _, _, _, _)
BestFrom(current, v, neighbors, k, best) ==
    IF k > Len(neighbors) THEN best
    ELSE LET w  == <<neighbors[k][1] - current[1], neighbors[k][2] - current[2]>>
             bw == <<best[1] - current[1], best[2] - current[2]>>
         IN BestFrom(current, v, neighbors, k + 1,
                     IF AngleLess(v, w, bw) THEN neighbors[k] ELSE best)

\* a choice that takes the first neighbor whatever the angles
FirstNeighbor(current, previous, neighbors) == neighbors[1]

_choose_rightmost_neighbor(current, previous, neighbors) ==
    LET incoming_vector == <<current[1] - previous[1], current[2] - previous[2]>>
        \* np.angle(0) is 0, the direction of the positive x axis
        v == IF incoming_vector = <<0, 0>> THEN <<1, 0>> ELSE incoming_vector
    IN BestFrom(current, v, neighbors, 2, neighbors[1])

\* neighbors counted as eligible although the walk has been at them
EligibleOnPath(g, p, visited) ==
    LET current == p[Len(p)]
        ok(nb) == EdgeKey(current, nb) \notin visited
    IN SelectSeq(Neighbors(g, current), ok)

\* _find_cycle_from_edge, lines 211-216: unvisited neighbors of current
EligibleNeighbors(g, p, visited) ==
    LET current == p[Len(p)]
        ok(nb) == EdgeKey(current, nb) \notin visited /\ nb \notin Elems(p)
    IN SelectSeq(Neighbors(g, current), ok)

\* a walk that closes whatever the length of its path
CanCloseAtTwo(g, p, visited) ==
    /\ p[1] \in Elems(Neighbors(g, p[Len(p)]))
    /\ EdgeKey(p[Len(p)], p[1]) \notin visited

\* _find_cycle_from_edge, lines 219-221: the walk can return to start
CanClose(g, p, visited) ==
    LET current == p[Len(p)]
        start   == p[1]
    IN /\ start \in Elems(Neighbors(g, current))
       /\ EdgeKey(current, start) \notin visited
       /\ Len(p) >= 3

\* a closing walk that marks no edge
NoEdges(p) == {}

\* the edges between consecutive path nodes, without the closing edge
OpenPathEdges(p) == { EdgeKey(p[k], p[k + 1]) : k \in 1..(Len(p) - 1) }

\* lines 223-227: the edges a closing walk marks
PathEdges(p) ==
    { EdgeKey(p[k], p[k + 1]) : k \in 1..(Len(p) - 1) } \cup {EdgeKey(p[Len(p)], p[1])}

\* lines 234-237
NextNode(g, p, visited) ==
    LET neighbors == EligibleNeighbors(g, p, visited)
    IN IF Len(neighbors) = 1 THEN neighbors[1]
       ELSE _choose_rightmost_neighbor(p[Len(p)], p[Len(p) - 1], neighbors)

\* the two for loops of _find_cycles_in_graph: the entry after <<i, j>>
RECURSIVE SkipEmpty(_, _)
SkipEmpty(g, i) ==
    IF i > Len(g.keys) THEN <<i, 1>>
    ELSE IF Len(g.adj[i]) = 0 THEN SkipEmpty(g, i + 1) ELSE <<i, 1>>

Advance(g, c) ==
    IF c[2] < Len(g.adj[c[1]]) THEN <<c[1], c[2] + 1>> ELSE SkipEmpty(g, c[1] + 1)

-----------------------------------------------------------------------------
(* Polygon Validator and De-nester.  Polygon, is_valid, is_empty, area and   *)
(* contains belong to the shapely library; they are given here by their      *)
(* documented meaning on a ring of grid points.                              *)

Cross(o, a, b) == (a[1] - o[1]) * (b[2] - o[2]) - (a[2] - o[2]) * (b[1] - o[1])
DotAt(o, a, b) == (a[1] - o[1]) * (b[1] - o[1]) + (a[2] - o[2]) * (b[2] - o[2])

\* p lies on the closed segment a-b
OnSeg(p, a, b) ==
    /\ Cross(a, b, p) = 0
    /\ Min(a[1], b[1]) <= p[1] /\ p[1] <= Max(a[1], b[1])
    /\ Min(a[2], b[2]) <= p[2] /\ p[2] <= Max(a[2], b[2])

\* the segments cross at a point interior to both
ProperCross(a, b, c, d) ==
    /\ Sgn(Cross(a, b, c)) * Sgn(Cross(a, b, d)) < 0
    /\ Sgn(Cross(c, d, a)) * Sgn(Cross(c, d, b)) < 0

\* the closed segments have a point in common
SegsMeet(a, b, c, d) ==
    \/ ProperCross(a, b, c, d)
    \/ OnSeg(c, a, b) \/ OnSeg(d, a, b) \/ OnSeg(a, c, d) \/ OnSeg(b, c, d)

\* the ring without repeated consecutive points
RECURSIVE Dedup(_)
Dedup(c) ==
    IF Len(c) <= 1 THEN c
    ELSE IF c[1] = c[2] THEN Dedup(Tail(c)) ELSE <<c[1]>> \o Dedup(Tail(c))

Ring(c) ==
    LET d == Dedup(c)
    IN IF Len(d) > 1 /\ d[Len(d)] = d[1] THEN SubSeq(d, 1, Len(d) - 1) ELSE d

Nxt(k, n) == IF k = n THEN 1 ELSE k + 1

\* twice the signed area (shoelace)
RECURSIVE Shoelace(_, _)
Shoelace(c, k) ==
    IF k > Len(c) THEN 0
    ELSE c[k][1] * c[Nxt(k, Len(c))][2] - c[Nxt(k, Len(c))][1] * c[k][2]
         + Shoelace(c, k + 1)

\* the area with the sign of the ring's direction
SignedTwiceArea(c) == Shoelace(c, 1)

TwiceArea(c) == Abs(Shoelace(c, 1))

\* polygon.area > self.tolerance
AreaAboveTol(c) == TwiceArea(c) * AreaD > 2 * AreaN

\* polygon.is_valid: the ring is simple and encloses area
IsValid(c) ==
    LET r == Ring(c)
        n == Len(r)
    IN /\ n >= 3
       /\ TwiceArea(r) # 0
       /\ \A i \in 1..n : \A j \in (i + 1)..n :
            LET a == r[i]
                b == r[Nxt(i, n)]
                p == r[j]
                q == r[Nxt(j, n)]
            IN IF j = i + 1
               THEN ~(Cross(b, a, q) = 0 /\ DotAt(b, a, q) > 0)
               ELSE IF i = 1 /\ j = n
               THEN ~(Cross(a, b, p) = 0 /\ DotAt(a, b, p) > 0)
               ELSE ~SegsMeet(a, b, p, q)

\* polygon.is_empty
IsEmpty(c) == Len(c) = 0

\* the test of _validate_polygons without the bound on the sides
KeepAnySides(c) ==
    /\ IsValid(c)
    /\ ~IsEmpty(c)
    /\ AreaAboveTol(c)

\* the test of _validate_polygons, lines 280-283
Keep(c) ==
    /\ IsValid(c)
    /\ ~IsEmpty(c)
    /\ AreaAboveTol(c)
    /\ Len(c) <= MaxSides

\* the polygons that pass, the last one found first
ValidateNewestFirst(cs) ==
    LET kept == SelectSeq(cs, Keep)
    IN [i \in 1..Len(kept) |-> kept[Len(kept) + 1 - i]]

_validate_polygons(cs) == SelectSeq(cs, Keep)

Twice(p) == <<2 * p[1], 2 * p[2]>>

\* pt (in doubled coordinates) lies in the closed region of ring r
InClosed(pt, r) ==
    LET n == Len(r)
        A(k) == Twice(r[k])
        B(k) == Twice(r[Nxt(k, n)])
        crossing == { k \in 1..n :
                        /\ (A(k)[2] > pt[2]) # (B(k)[2] > pt[2])
                        /\ IF B(k)[2] > A(k)[2] THEN Cross(A(k), B(k), pt) > 0
                                                ELSE Cross(A(k), B(k), pt) < 0 }
    IN \/ \E k \in 1..n : OnSeg(pt, A(k), B(k))
       \/ Cardinality(crossing) % 2 = 1

\* poly2.contains(poly1): no point of poly1 lies outside poly2
Contains(poly2, poly1) ==
    LET r1 == Ring(poly1)
        r2 == Ring(poly2)
        n1 == Len(r1)
        n2 == Len(r2)
    IN \A i \in 1..n1 :
         LET a == r1[i]
             b == r1[Nxt(i, n1)]
             pts == {a, b} \cup { v \in Elems(r2) : OnSeg(v, a, b) }
         IN /\ \A j \in 1..n2 : ~ProperCross(a, b, r2[j], r2[Nxt(j, n2)])
            /\ \A u \in pts : InClosed(Twice(u), r2)
            /\ \A u \in pts : \A v \in pts \ {u} :
                 (\A w \in pts \ {u, v} : ~OnSeg(w, u, v))
                    => InClosed(<<u[1] + v[1], u[2] + v[2]>>, r2)

\* no polygon counts as nested
NeverNested(polygons, i) == FALSE

\* poly1 counts as nested only in a polygon that is itself in no other
NestedInKept(polygons, i) ==
    \E j \in 1..Len(polygons) :
        /\ i # j
        /\ Contains(polygons[j], polygons[i])
        /\ \A k \in 1..Len(polygons) : k = j \/ ~Contains(polygons[k], polygons[j])

\* poly1 is nested: some other polygon of the list contains it
IsNested(polygons, i) ==
    \E j \in 1..Len(polygons) : i # j /\ Contains(polygons[j], polygons[i])

RECURSIVE FilterFrom(_, _)
FilterFrom(polygons, i) ==
    IF i > Len(polygons) THEN <<>>
    ELSE (IF IsNested(polygons, i) THEN <<>> ELSE <<polygons[i]>>)
         \o FilterFrom(polygons, i + 1)

_remove_nested_polygons(polygons) == FilterFrom(polygons, 1)

-----------------------------------------------------------------------------
(* Inputs: the segment lists find_polygons is called with.  Coordinates are  *)
(* in grid units (tenths).                                                   *)

\* bounds of the input families
MaxSegs == 2       \* length of the free-form segment lists
MaxVec == 4        \* largest component of a lattice square's side vector
MaxGon == 8        \* most vertices of the convex polygon inputs
MaxOuter == 10     \* largest side of the outer square of the nested inputs
MaxCalls == 3      \* calls of find_polygons on one processor

\* a closed chain through the points of vs, end to end
RECURSIVE ChainFrom(_, _)
ChainFrom(vs, k) ==
    IF k > Len(vs) THEN <<>>
    ELSE << <<vs[k], vs[Nxt(k, Len(vs))]>> >> \o ChainFrom(vs, k + 1)

Chain(vs) == ChainFrom(vs, 1)

RECURSIVE Reverse(_)
Reverse(seq) == IF Len(seq) = 0 THEN <<>> ELSE Append(Reverse(Tail(seq)), Head(seq))

\* corners of the square at o with side vector <<a, b>>
Corners(o, a, b) ==
    << Pt(o[1], o[2]), Pt(o[1] + a, o[2] + b),
       Pt(o[1] + a - b, o[2] + a + b), Pt(o[1] - b, o[2] + a) >>

\* an axis-parallel square with lower left corner <<x, y>> and side s
Square(x, y, s) == Chain(Corners(<<x, y>>, s, 0))

\* the squares of the test and of the scenario: sides 10.0 and 50.0
NamedSquares == { Square(0, 0, 100), Square(0, 0, 500) }

\* closed squares with area above the tolerance, in both directions
SquareInputs ==
    NamedSquares \cup
    { Chain(IF ccw THEN Corners(o, v[1], v[2]) ELSE Reverse(Corners(o, v[1], v[2]))) :
        <<o, v, ccw>> \in
            { <<0, 0>>, <<3, -2>> }
            \X { w \in (1..MaxVec) \X (0..MaxVec) :
                    (w[1] * w[1] + w[2] * w[2]) * AreaD > AreaN }
            \X BOOLEAN }

\* the square with corners (0, 6), (6, 0), (12, 6), (6, 12)
Diamond == Chain(Corners(<<6, 0>>, 6, 6))

\* one square strictly inside another, no boundary shared; either may come first
InnerSide == 4
NestedPairs ==
    { <<so, ox, oy>> \in (8..MaxOuter) \X (1..MaxOuter) \X (1..MaxOuter) :
        ox + InnerSide < so /\ oy + InnerSide < so }
NestedInputs ==
    { Square(0, 0, n[1]) \o Square(n[2], n[3], InnerSide) : n \in NestedPairs }
    \cup { Square(n[2], n[3], InnerSide) \o Square(0, 0, n[1]) : n \in NestedPairs }
    \cup { Square(0, 0, 8) \o Chain(<< <<10, 6, 5>>, <<30, 6, 5>>, <<30, 26, 5>>, <<10, 26, 5>> >>),
           Diamond \o Chain(<< <<7, 8, 2>>, <<15, 8, 2>>, <<15, 16, 2>>, <<7, 16, 2>> >>) }

\* a square with one diagonal
SquareDiag(s) == Square(0, 0, s) \o << <<Pt(0, 0), Pt(s, s)>> >>

\* four segments in a '#' arrangement with arm length s
Hash(s) ==
    << <<Pt(0, s), Pt(3 * s, s)>>, <<Pt(0, 2 * s), Pt(3 * s, 2 * s)>>,
       <<Pt(s, 0), Pt(s, 3 * s)>>, <<Pt(2 * s, 0), Pt(2 * s, 3 * s)>> >>

SubdivisionInputs == { SquareDiag(s) : s \in {10, 20} } \cup { Hash(s) : s \in {10, 20} }

\* the first n vertices of a convex lattice 12-gon, closed end to end
Gon12 ==
    << Pt(0, 0), Pt(6, 0), Pt(12, 3), Pt(15, 9), Pt(15, 15), Pt(12, 21), Pt(6, 24),
       Pt(0, 24), Pt(-6, 21), Pt(-9, 15), Pt(-9, 9), Pt(-6, 3) >>
GonInputs == { Chain(SubSeq(Gon12, 1, n)) : n \in 3..MaxGon }

\* degenerate inputs: a segment both of whose ends round to one node, alone
\* and beside a triangle through that node; overlapping collinear segments
Loop == << <<3, 3, 5>>, <<7, 7, 5>> >>
DegenerateInputs ==
    { << Loop >>,
      << Loop, <<Pt(1, 1), Pt(9, 1)>>, <<Pt(9, 1), Pt(1, 9)>>, <<Pt(1, 9), Pt(1, 1)>> >>,
      << <<Pt(0, 0), Pt(20, 0)>>, <<Pt(10, 0), Pt(30, 0)>>, <<Pt(10, 0), Pt(30, 0)>> >> }

\* free-form lists: every list of at most MaxSegs segments of the pool: a long
\* and a short horizontal, a short vertical across both, long verticals near
\* the long horizontal's end, a diagonal, and a segment of length zero
PoolSegments ==
    { <<Pt(0, 0), Pt(10, 0)>>, <<Pt(10, 0), Pt(0, 0)>>, <<Pt(0, 0), Pt(2, 0)>>,
      <<Pt(1, -1), Pt(1, 1)>>, <<<<19, -20, 2>>, <<19, 20, 2>>>>,
      <<<<19, 20, 2>>, <<19, -20, 2>>>>, <<Pt(9, -10), Pt(9, 10)>>,
      <<Pt(0, -5), Pt(10, 5)>>, <<Pt(0, 0), Pt(0, 0)>> }
PoolInputs == UNION { [1..k -> PoolSegments] : k \in 0..MaxSegs }

\* three segments that cross one another at (5, 0), (9, 0) and (9, 4)
Crossing3 == << <<Pt(0, 0), Pt(10, 0)>>, <<Pt(9, -10), Pt(9, 10)>>, <<Pt(0, -5), Pt(10, 5)>> >>

\* a segment crossed twice within the tolerance: at (9, 0) and at (9.5, 0)
CloseCrossings ==
    << <<Pt(0, 0), Pt(10, 0)>>, <<Pt(9, -10), Pt(9, 10)>>, <<<<19, -20, 2>>, <<19, 20, 2>>>> >>

\* segments whose endpoints lie closer together than the tolerance without
\* meeting: (0.04, 0) and (0.06, 0.02); and a segment shorter than the rounding
\* step beside a segment given twice, and beside a segment that starts at
\* (0.12, 0.08), within the rounding step of both its ends; and the square with
\* the corners (0.04, 0.04) and (0.96, 0.96), which round outwards
NearInputs ==
    { << << <<2, 0, 5>>, Pt(10, 0) >>, << <<3, 1, 5>>, <<3, 50, 5>> >> >>,
      << Loop, <<Pt(0, 0), Pt(20, 0)>>, <<Pt(0, 0), Pt(20, 0)>> >>,
      << Loop, << <<6, 4, 5>>, <<50, 4, 5>> >> >>,
      Chain(<< <<2, 2, 5>>, <<48, 2, 5>>, <<48, 48, 5>>, <<2, 48, 5>> >>) }

\* two squares apart from each other: of sides 1.0 and 1.0; of sides 0.3 and
\* 1.0, the smaller with an area of 0.09
PairInputs ==
    { Square(0, 0, 10) \o Square(20, 0, 10),
      Square(0, 0, 3) \o Square(10, 10, 10) }

\* a segment that ends where three others begin: two of them run the same way
\* on, with lengths 1.0 and 2.0, the third runs the opposite way
TieInputs ==
    { << <<Pt(0, 10), Pt(10, 10)>>, <<Pt(10, 10), Pt(10, 20)>>,
         <<Pt(10, 10), Pt(10, 30)>>, <<Pt(10, 10), Pt(10, 0)>> >> }

\* a segment of length 0.05 from (2.0, 2.0), and two segments of length 2.0
\* that cross at (1.95, 2.05), beside it
ShortInputs ==
    { << << <<20, 20, 1>>, <<41, 40, 2>> >>,
         << <<19, 41, 2>>, <<59, 41, 2>> >>,
         << <<39, 21, 2>>, <<39, 61, 2>> >> >> }

\* a triangle drawn twice, with whole sides and with every side in two halves
DoubledTriangle ==
    Chain(<<Pt(0, 0), Pt(20, 0), Pt(0, 20)>>)
    \o Chain(<<Pt(0, 0), Pt(10, 0), Pt(20, 0), Pt(10, 10), Pt(0, 20), Pt(0, 10)>>)

\* three squares, each inside the one before
SquaresInSquares == Square(0, 0, 60) \o Square(10, 10, 40) \o Square(20, 20, 20)

DenestInputs == { DoubledTriangle, SquaresInSquares }

\* what the processor is called with between two runs of the same input
Between == { Crossing3 }

Inputs ==
    SquareInputs \cup NestedInputs \cup SubdivisionInputs \cup GonInputs
    \cup DegenerateInputs \cup PoolInputs \cup Between \cup {CloseCrossings}
    \cup NearInputs \cup PairInputs \cup TieInputs \cup ShortInputs
    \cup DenestInputs

-----------------------------------------------------------------------------
(* The state machine *)

\* the intersection set carried over from the call before
KeepIntersections(old) == old

\* line 39: self.intersections = set()
ResetIntersections(old) == {}

\* line 38: self.segments = line_segments
ResetSegments(old, ls) == ls

Init ==
    /\ pc = "idle"
    /\ calls = 0
    /\ first = None
    /\ first_result = None
    /\ tieUp \in BOOLEAN
    /\ line_segments = <<>>
    /\ segments = <<>>
    /\ intersections = {}
    /\ split_segments = <<>>
    /\ graph = EmptyGraph
    /\ cycles = <<>>
    /\ visited_edges = {}
    /\ cursor = <<1, 1>>
    /\ path = <<>>
    /\ valid_polygons = <<>>
    /\ result = <<>>
    /\ other = "idle"

\* the arguments of the next call: any input on the new processor, then in
\* turn another input and the first input again
NextArgs ==
    IF calls = 0 THEN Inputs
    ELSE IF calls % 2 = 1 THEN Between ELSE {first}

\* find_polygons is called (lines 38-39)
find_polygons(ls) ==
    /\ pc \in {"idle", "done"}
    /\ calls < MaxCalls
    /\ ls \in NextArgs
    /\ pc' = "intersect"
    /\ calls' = calls + 1
    /\ first' = IF calls = 0 THEN ls ELSE first
    /\ line_segments' = ls
    /\ segments' = ResetSegments(segments, ls)
    /\ intersections' = ResetIntersections(intersections)
    /\ split_segments' = <<>>
    /\ graph' = EmptyGraph
    /\ cycles' = <<>>
    /\ visited_edges' = {}
    /\ cursor' = <<1, 1>>
    /\ path' = <<>>
    /\ valid_polygons' = <<>>
    /\ UNCHANGED <<other, first_result, tieUp, result>>

\* line 42
FindIntersections ==
    /\ pc = "intersect"
    /\ IF ZeroDivisionError \in PairResults(segments)
       THEN pc' = "raised" /\ UNCHANGED intersections
       ELSE pc' = "split" /\ intersections' = _find_intersections(segments, intersections)
    /\ UNCHANGED <<other, calls, first, first_result, tieUp, line_segments, segments, split_segments, graph,
                   cycles, visited_edges, cursor, path, valid_polygons, result>>

\* line 45
SplitSegments ==
    /\ pc = "split"
    /\ split_segments' = _split_segments_at_intersections(segments, intersections)
    /\ pc' = "graph"
    /\ UNCHANGED <<other, calls, first, first_result, tieUp, line_segments, segments, intersections, graph,
                   cycles, visited_edges, cursor, path, valid_polygons, result>>

\* line 48, and lines 188-189 of _find_cycles_in_graph
BuildGraph ==
    /\ pc = "graph"
    /\ graph' = _build_segment_graph(split_segments, tieUp)
    /\ cycles' = <<>>
    /\ visited_edges' = {}
    /\ cursor' = SkipEmpty(graph', 1)
    /\ pc' = "scan"
    /\ UNCHANGED <<other, calls, first, first_result, tieUp, line_segments, segments, intersections,
                   split_segments, path, valid_polygons, result>>

AtEntry == cursor[1] <= Len(graph.keys)
start_node == graph.keys[cursor[1]]
neighbor == graph.adj[cursor[1]][cursor[2]]

\* lines 193-195: the edge is visited, continue
ScanSkip ==
    /\ pc = "scan"
    /\ AtEntry
    /\ EdgeKey(start_node, neighbor) \in visited_edges
    /\ cursor' = Advance(graph, cursor)
    /\ UNCHANGED <<other, pc, calls, first, first_result, tieUp, line_segments, segments, intersections,
                   split_segments, graph, cycles, visited_edges, path, valid_polygons,
                   result>>

\* line 198 and line 207: a walk starts from the edge
StartWalk ==
    /\ pc = "scan"
    /\ AtEntry
    /\ EdgeKey(start_node, neighbor) \notin visited_edges
    /\ path' = <<start_node, neighbor>>
    /\ pc' = "walk"
    /\ UNCHANGED <<other, calls, first, first_result, tieUp, line_segments, segments, intersections,
                   split_segments, graph, cycles, visited_edges, cursor, valid_polygons,
                   result>>

\* lines 219-228 and 199-200: the walk closes, its edges are marked, the cycle kept
WalkClose ==
    /\ pc = "walk"
    /\ CanClose(graph, path, visited_edges)
    /\ visited_edges' = visited_edges \cup PathEdges(path)
    /\ cycles' = IF Len(path) >= 3 THEN Append(cycles, path) ELSE cycles
    /\ cursor' = Advance(graph, cursor)
    /\ pc' = "scan"
    /\ UNCHANGED <<other, calls, first, first_result, tieUp, line_segments, segments, intersections,
                   split_segments, graph, path, valid_polygons, result>>

\* an abandoned walk that marks the edges of its path
WalkAbandonMarking ==
    /\ pc = "walk"
    /\ ~CanClose(graph, path, visited_edges)
    /\ EligibleNeighbors(graph, path, visited_edges) = <<>>
    /\ visited_edges' = visited_edges \cup PathEdges(path)
    /\ cursor' = Advance(graph, cursor)
    /\ pc' = "scan"
    /\ UNCHANGED <<other, calls, first, first_result, tieUp, line_segments, segments, intersections,
                   split_segments, graph, cycles, path, valid_polygons, result>>

\* lines 230-231 and 243: no neighbor is left, the walk returns None
WalkAbandon ==
    /\ pc = "walk"
    /\ ~CanClose(graph, path, visited_edges)
    /\ EligibleNeighbors(graph, path, visited_edges) = <<>>
    /\ cursor' = Advance(graph, cursor)
    /\ pc' = "scan"
    /\ UNCHANGED <<other, calls, first, first_result, tieUp, line_segments, segments, intersections,
                   split_segments, graph, cycles, visited_edges, path, valid_polygons,
                   result>>

\* lines 233-241: the walk moves on
WalkExtend ==
    /\ pc = "walk"
    /\ ~CanClose(graph, path, visited_edges)
    /\ EligibleNeighbors(graph, path, visited_edges) # <<>>
    /\ path' = Append(path, NextNode(graph, path, visited_edges))
    /\ UNCHANGED <<other, pc, calls, first, first_result, tieUp, line_segments, segments, intersections,
                   split_segments, graph, cycles, visited_edges, cursor, valid_polygons,
                   result>>

\* line 202: both loops are done
ReturnCycles ==
    /\ pc = "scan"
    /\ ~AtEntry
    /\ pc' = "validate"
    /\ UNCHANGED <<other, calls, first, first_result, tieUp, line_segments, segments, intersections,
                   split_segments, graph, cycles, visited_edges, cursor, path,
                   valid_polygons, result>>

\* lines 269-289
ValidatePolygons ==
    /\ pc = "validate"
    /\ valid_polygons' = _validate_polygons(cycles)
    /\ pc' = "denest"
    /\ UNCHANGED <<other, calls, first, first_result, tieUp, line_segments, segments, intersections,
                   split_segments, graph, cycles, visited_edges, cursor, path, result>>

\* line 292 and line 56
RemoveNested ==
    /\ pc = "denest"
    /\ result' = _remove_nested_polygons(valid_polygons)
    /\ first_result' = IF calls = 1 THEN result' ELSE first_result
    /\ pc' = "done"
    /\ UNCHANGED <<other, calls, first, tieUp, line_segments, segments, intersections,
                   split_segments, graph, cycles, visited_edges, cursor, path,
                   valid_polygons>>

Next ==
    \/ \E ls \in NextArgs : find_polygons(ls)
    \/ FindIntersections
    \/ SplitSegments
    \/ BuildGraph
    \/ ScanSkip
    \/ StartWalk
    \/ WalkClose
    \/ WalkAbandon
    \/ WalkExtend
    \/ ReturnCycles
    \/ ValidatePolygons
    \/ RemoveNested

Spec == Init /\ [][Next]_vars

\* A second invocation of find_polygons on the same processor, interleaved
\* with the first at the boundaries of the pipeline stages.  It is followed
\* through the statements that write fields of the processor, lines 38-39 and
\* line 42 (lines 62-64); its later stages write locals only.  It begins while
\* a rerun of the first input is at a stage that reads the fields.
ReadsFields == pc \in {"intersect", "split"} /\ calls > 1 /\ line_segments = first

\* lines 38-39, by the second invocation
OtherEnter(ls) ==
    /\ other = "idle"
    /\ ReadsFields
    /\ segments' = ResetSegments(segments, ls)
    /\ intersections' = ResetIntersections(intersections)
    /\ other' = "intersect"
    /\ UNCHANGED <<pc, calls, first, first_result, tieUp, line_segments, split_segments,
                   graph, cycles, visited_edges, cursor, path, valid_polygons, result>>

\* line 42, by the second invocation
OtherFindIntersections ==
    /\ other = "intersect"
    /\ ReadsFields
    /\ ZeroDivisionError \notin PairResults(segments)
    /\ intersections' = _find_intersections(segments, intersections)
    /\ other' = "split"
    /\ UNCHANGED <<pc, calls, first, first_result, tieUp, line_segments, segments,
                   split_segments, graph, cycles, visited_edges, cursor, path,
                   valid_polygons, result>>

ConcNext ==
    \/ Next
    \/ \E ls \in Between : OtherEnter(ls)
    \/ OtherFindIntersections

ConcSpec == Init /\ [][ConcNext]_vars

\* _find_intersections on two segments, computed in binary64 (lines 58-103)
\* the points the pairs of segments run between: (1.4, 4.8), (2.9, 1.8),
\* (5.9, 0.1), (5.0, 5.0) and (3.0, 1.9)
FloatPoints == { Pt(14, 48), Pt(29, 18), Pt(59, 1), Pt(50, 50), Pt(30, 19) }

FloatSegments == { <<p, q>> : p, q \in FloatPoints } \ { <<p, p>> : p \in FloatPoints }

\* two segments, each between two of the points
FloatInputs == { <<s1, s2>> : s1, s2 \in FloatSegments }

\* a processor whose find_polygons was called with two segments (lines 38-39)
FloatInit ==
    /\ pc = "intersect"
    /\ calls = 1
    /\ line_segments \in FloatInputs
    /\ segments = line_segments
    /\ first = line_segments
    /\ first_result = None
    /\ tieUp = FALSE
    /\ intersections = {}
    /\ split_segments = <<>>
    /\ graph = EmptyGraph
    /\ cycles = <<>>
    /\ visited_edges = {}
    /\ cursor = <<1, 1>>
    /\ path = <<>>
    /\ valid_polygons = <<>>
    /\ result = <<>>
    /\ other = "idle"

\* the values _line_intersection returns over all pairs i < j, in binary64
PairResults64(segs) ==
    { LineIntersection64(segs[i], segs[j]) :
        <<i, j>> \in { ij \in (1..Len(segs)) \X (1..Len(segs)) : ij[1] < ij[2] } }

\* line 42 (lines 60-64), the arithmetic in binary64
FindIntersections64 ==
    /\ pc = "intersect"
    /\ intersections' = intersections \cup (PairResults64(segments) \ {None})
    /\ pc' = "split"
    /\ UNCHANGED <<other, calls, first, first_result, tieUp, line_segments, segments, split_segments, graph,
                   cycles, visited_edges, cursor, path, valid_polygons, result>>

FloatNext == FindIntersections64

FloatSpec == FloatInit /\ [][FloatNext]_vars

-----------------------------------------------------------------------------
(* Properties *)

\* rotations of a vertex sequence
Rotations(c) == { SubSeq(c, k, Len(c)) \o SubSeq(c, 1, k - 1) : k \in 1..Len(c) }

\* the same cycle up to rotation and direction
SameCycle(c, d) == d \in Rotations(c) \cup Rotations(Reverse(c))

\* the start points of a chain of segments, as grid nodes
RECURSIVE Starts(_)
Starts(ls) ==
    IF Len(ls) = 0 THEN <<>>
    ELSE << <<ls[1][1][1] \div ls[1][1][3], ls[1][1][2] \div ls[1][1][3]>> >> \o Starts(Tail(ls))

Returned(c) == \E k \in 1..Len(result) : SameCycle(c, result[k])

\* the bounded cells of the subdivision inputs: the two triangles of a square
\* with a diagonal, the central square of a '#'
CellsOf(ls) ==
    UNION { IF ls = SquareDiag(s)
            THEN { << <<0, 0>>, <<s, 0>>, <<s, s>> >>, << <<0, 0>>, <<s, s>>, <<0, s>> >> }
            ELSE IF ls = Hash(s)
            THEN { << <<s, s>>, <<2 * s, s>>, <<2 * s, 2 * s>>, <<s, 2 * s>> >> }
            ELSE {} : s \in {10, 20} }

\* C1: when find_polygons has returned, every bounded cell of the subdivision
\* (3 to 6 vertices, area above the tolerance) is among the returned polygons,
\* also cells that share an edge and cells bounded by segments that run on past
\* their crossings.
C1_AllCellsReturned ==
    (pc = "done" /\ line_segments \in SubdivisionInputs)
        => \A c \in CellsOf(line_segments) : Returned(c)

C3_VertexCount ==
    pc = "done" =>
        \A k \in 1..Len(result) :
            /\ 3 <= Len(Ring(result[k]))
            /\ Len(result[k]) <= MaxSides

\* a polygon of exactly MaxSides vertices is returned
C3_Witness ==
    /\ pc = "done"
    /\ \E k \in 1..Len(result) : Len(result[k]) = MaxSides

\* C4: a run of find_polygons on a processor that has been used before, for
\* the same and for other inputs, returns the same set of polygons as the run
\* of that input on the new processor did.
C4_Deterministic ==
    (pc = "done" /\ calls > 1 /\ line_segments = first)
        => Elems(result) = Elems(first_result)

\* the square of side 10.0 is run again after Crossing3, whose crossings at
\* (5, 0) and (9, 0) lie on its lower side
C4_Witness ==
    /\ pc = "done"
    /\ calls = 3
    /\ line_segments = Square(0, 0, 100)
    /\ Len(result) = 1

\* C5: for two squares, one strictly inside the other with no shared boundary,
\* find_polygons returns exactly one polygon, the outer square.
OuterOf(ls) ==
    LET a == Starts(SubSeq(ls, 1, 4))
        b == Starts(SubSeq(ls, 5, 8))
    IN IF TwiceArea(a) > TwiceArea(b) THEN a ELSE b

C5_NestedKeepsOuter ==
    (pc = "done" /\ line_segments \in NestedInputs)
        => /\ Len(result) = 1
           /\ SameCycle(OuterOf(line_segments), result[1])

\* a node that is its own neighbour
HasSelfLoop(g) == \E k \in 1..Len(g.keys) : g.keys[k] \in Elems(g.adj[k])

\* the call is between its entry and its return
Running == pc \notin {"idle", "done", "raised"}

\* the statement the call is at can be executed.  The stages of lines 42-56
\* have no condition.  The scan takes one of its three branches.  The walk
\* closes, or has no neighbor left, or moves to a node that has an adjacency
\* list of its own.
CanStep ==
    \/ pc \in {"intersect", "split", "graph", "validate", "denest"}
    \/ pc = "scan" /\ ENABLED (ScanSkip \/ StartWalk \/ ReturnCycles)
    \/ pc = "walk" /\ \/ CanClose(graph, path, visited_edges)
                      \/ EligibleNeighbors(graph, path, visited_edges) = <<>>
                      \/ NextNode(graph, path, visited_edges) \in Elems(graph.keys)

\* the statements left to run: the stages after the current one, the entries
\* of the adjacency lists the scan has not passed, the nodes the walk has not
\* entered
Entries(g) == { <<i, j>> \in (1..Len(g.keys)) \X (1..(2 * Len(split_segments))) :
                  j <= Len(g.adj[i]) }
EntriesLeft ==
    Cardinality({ e \in Entries(graph) :
                    e[1] > cursor[1] \/ (e[1] = cursor[1] /\ e[2] >= cursor[2]) })
Rank ==
    CASE pc = "intersect" -> <<6, 0, 0>>
      [] pc = "split"     -> <<5, 0, 0>>
      [] pc = "graph"     -> <<4, 0, 0>>
      [] pc = "scan"      -> <<3, 2 * EntriesLeft + 1, 0>>
      [] pc = "walk"      -> <<3, 2 * EntriesLeft, Len(graph.keys) + 1 - Len(path)>>
      [] pc = "validate"  -> <<2, 0, 0>>
      [] pc = "denest"    -> <<1, 0, 0>>
      [] OTHER            -> <<0, 0, 0>>

\* lexicographic order on triples of naturals
RankLess(r, q) ==
    \/ r[1] < q[1]
    \/ r[1] = q[1] /\ r[2] < q[2]
    \/ r[1] = q[1] /\ r[2] = q[2] /\ r[3] < q[3]

\* C6: find_polygons never raises and every call returns, for any list of
\* segments: the empty list, segments of length zero, parallel, near-parallel
\* and duplicate segments, graphs with self-loops or parallel edges, walks that
\* dead-end, faces that are not simple.  A call returns because no step raises,
\* every statement it reaches can be executed, and every step lowers Rank, a
\* triple of naturals in lexicographic order.
C6_NeverAborts ==
    /\ [](pc # "raised")
    /\ [](Running => CanStep /\ Rank \in Nat \X Nat \X Nat)
    /\ [][Running => RankLess(Rank', Rank)]_vars

\* a call on a list with a segment shorter than the rounding step has returned
\* after a graph with a self-loop was built
C6_Witness ==
    /\ pc = "done"
    /\ line_segments \in DegenerateInputs
    /\ HasSelfLoop(graph)

\* the pairs of indices i < j of a list
Pairs(seq) == { ij \in (1..Len(seq)) \X (1..Len(seq)) : ij[1] < ij[2] }

\* the analytic crossing point of two segments whose lines are not parallel
\* and whose parameters t and u both lie in [0, 1]; None otherwise
Analytic(seg1, seg2) ==
    LET L  == Lcm(Lcm(seg1[1][3], seg1[2][3]), Lcm(seg2[1][3], seg2[2][3]))
        x1 == NumX(seg1[1], L)
        y1 == NumY(seg1[1], L)
        x2 == NumX(seg1[2], L)
        y2 == NumY(seg1[2], L)
        x3 == NumX(seg2[1], L)
        y3 == NumY(seg2[1], L)
        x4 == NumX(seg2[2], L)
        y4 == NumY(seg2[2], L)
        denom == (x1 - x2) * (y3 - y4) - (y1 - y2) * (x3 - x4)
        tnum  == (x1 - x3) * (y3 - y4) - (y1 - y3) * (x3 - x4)
        unum  == -((x1 - x2) * (y1 - y3) - (y1 - y2) * (x1 - x3))
        s     == Sgn(denom)
    IN IF denom = 0 THEN None
       ELSE IF /\ 0 <= s * tnum /\ s * tnum <= s * denom
               /\ 0 <= s * unum /\ s * unum <= s * denom
            THEN Norm(x1 * denom + tnum * (x2 - x1),
                      y1 * denom + tnum * (y2 - y1),
                      L * denom)
            ELSE None

\* |p - q| <= tolerance
WithinTol(p, q) == ~LongerThanTol(p, q)

\* |p - q| < tolerance
CloserThanTol(p, q) ==
    LET L == Lcm(p[3], q[3])
    IN Dist2(p, q, L) * LinD * LinD < LinN * LinN * L * L

\* C7: after _find_intersections, for every pair of input segments that cross
\* at a point within both segments' parameter ranges, _line_intersection
\* returns a point, that point is within the tolerance of the analytic
\* crossing point, and it is in the intersection set; whatever the lengths of
\* the segments.
C7_CrossingsReported ==
    pc = "split" =>
        \A ij \in Pairs(segments) :
            LET a == Analytic(segments[ij[1]], segments[ij[2]])
                r == _line_intersection(segments[ij[1]], segments[ij[2]])
            IN a # None => /\ r \notin {None, ZeroDivisionError}
                           /\ WithinTol(r, a)
                           /\ r \in intersections

\* C8: after _find_intersections, no two distinct points of the intersection
\* set are closer to each other than the tolerance.
C8_DeduplicatedUnderTol ==
    pc = "split" =>
        \A p \in intersections : \A q \in intersections \ {p} : ~CloserThanTol(p, q)

\* the point p over the common denominator L
Scaled(p, L) == <<NumX(p, L), NumY(p, L)>>

\* two segments have a point in common that is not an endpoint of both
InteriorContact(s1, s2) ==
    LET L == Lcm(Lcm(s1[1][3], s1[2][3]), Lcm(s2[1][3], s2[2][3]))
        a == Scaled(s1[1], L)
        b == Scaled(s1[2], L)
        c == Scaled(s2[1], L)
        d == Scaled(s2[2], L)
    IN \/ ProperCross(a, b, c, d)
       \/ OnSeg(c, a, b) /\ c \notin {a, b}
       \/ OnSeg(d, a, b) /\ d \notin {a, b}
       \/ OnSeg(a, c, d) /\ a \notin {c, d}
       \/ OnSeg(b, c, d) /\ b \notin {c, d}
       \/ {a, b} = {c, d} /\ a # b

\* C9: after _split_segments_at_intersections, any two segments of the split
\* set that have a point in common have it only at an endpoint of both.
C9_NoInteriorCrossings ==
    pc = "graph" =>
        \A kl \in Pairs(split_segments) :
            ~InteriorContact(split_segments[kl[1]], split_segments[kl[2]])

\* a chain of segments from start to end, each beginning where the one before
\* it ended
IsChain(chain, start, end) ==
    /\ Len(chain) >= 1
    /\ chain[1][1] = start
    /\ chain[Len(chain)][2] = end
    /\ \A i \in 1..(Len(chain) - 1) : chain[i + 1][1] = chain[i][2]

\* C10: after _split_segments_at_intersections, for every input segment longer
\* than the tolerance the sub-segments emitted for it form a chain from its
\* start point to its end point, also when an intersection point lies within
\* the tolerance of an endpoint or of another collected point.
C10_ChainCoversSegment ==
    pc = "graph" =>
        \A k \in 1..Len(segments) :
            LongerThanTol(segments[k][1], segments[k][2])
                => IsChain(SubSegments(segments[k], intersections),
                           segments[k][1], segments[k][2])

\* the endpoints of a list of segments
EndPoints(segs) == { segs[k][1] : k \in 1..Len(segs) } \cup { segs[k][2] : k \in 1..Len(segs) }

\* C11: when the graph is built, any two endpoints of split segments that are
\* closer to each other than the tolerance have the same GraphNode key.
C11_NearEndpointsMerge ==
    pc = "scan" =>
        \A p \in EndPoints(split_segments) : \A q \in EndPoints(split_segments) :
            CloserThanTol(p, q) => _round_point(p, tieUp) = _round_point(q, tieUp)

\* the graph of the running or the last call is built
GraphBuilt == pc \in {"scan", "walk", "validate", "denest", "done"}

\* occurrences of x in a sequence
Count(seq, x) == Cardinality({ k \in 1..Len(seq) : seq[k] = x })

RECURSIVE SumLen(_, _)
SumLen(adj, k) == IF k > Len(adj) THEN 0 ELSE Len(adj[k]) + SumLen(adj, k + 1)

\* C12: the graph built from the split segments is an undirected multigraph:
\* B occurs in A's neighbor list as often as A occurs in B's, the neighbor
\* lists have twice as many entries as there are split segments, every
\* neighbor is a key of the graph and no key is there twice; also with
\* duplicate segments and self-loops.
C12_GraphWellFormed ==
    GraphBuilt =>
        /\ Len(graph.keys) = Len(graph.adj)
        /\ Cardinality(Elems(graph.keys)) = Len(graph.keys)
        /\ SumLen(graph.adj, 1) = 2 * Len(split_segments)
        /\ \A i \in 1..Len(graph.keys) :
             /\ Elems(graph.adj[i]) \subseteq Elems(graph.keys)
             /\ \A j \in 1..Len(graph.keys) :
                  Count(graph.adj[i], graph.keys[j]) = Count(graph.adj[j], graph.keys[i])

\* a graph with a self-loop and a parallel edge is built
C12_Witness ==
    /\ pc = "scan"
    /\ HasSelfLoop(graph)
    /\ \E i \in 1..Len(graph.keys) : \E j \in 1..Len(graph.keys) :
         i # j /\ Count(graph.adj[i], graph.keys[j]) >= 2

\* a closed walk in g over pairwise distinct nodes, at least 3 of them
IsFace(g, c) ==
    /\ Len(c) >= 3
    /\ Cardinality(Elems(c)) = Len(c)
    /\ \A k \in 1..Len(c) :
         /\ c[k] \in Elems(g.keys)
         /\ c[Nxt(k, Len(c))] \in Elems(Neighbors(g, c[k]))

\* C13: every face the extractor emits is a closed walk over at least 3
\* pairwise distinct nodes: no node is in it twice, consecutive nodes are
\* joined by an edge of the graph and so are the last and the first; also for
\* graphs with self-loops and parallel edges.
C13_FacesAreClosedWalks ==
    GraphBuilt => \A k \in 1..Len(cycles) : IsFace(graph, cycles[k])

\* the undirected edges on the boundary of a face
FaceEdges(c) == { EdgeKey(c[k], c[Nxt(k, Len(c))]) : k \in 1..Len(c) }

\* C14: within one extraction pass no undirected edge lies on the boundary of
\* two different emitted faces, and no face is emitted twice (the same cycle
\* up to rotation and direction).
C14_EdgeInAtMostOneFace ==
    GraphBuilt =>
        \A kl \in Pairs(cycles) :
            /\ FaceEdges(cycles[kl[1]]) \cap FaceEdges(cycles[kl[2]]) = {}
            /\ ~SameCycle(cycles[kl[1]], cycles[kl[2]])

\* a pass has emitted two faces
C14_Witness ==
    /\ pc = "validate"
    /\ Len(cycles) >= 2

\* the undirected edges of a graph
GraphEdges(g) ==
    UNION { { EdgeKey(g.keys[i], g.adj[i][j]) : j \in 1..Len(g.adj[i]) } : i \in 1..Len(g.keys) }

\* C15: when the extraction pass has finished, every undirected edge of the
\* graph is on the boundary of exactly one emitted face.
C15_EdgeInExactlyOneFace ==
    pc = "validate" =>
        \A e \in GraphEdges(graph) :
            Cardinality({ k \in 1..Len(cycles) : e \in FaceEdges(cycles[k]) }) = 1

\* the positions of the faces whose polygon is simple, not empty, of area
\* above the tolerance and of at most MaxSides vertices
Passing(cs) ==
    { k \in 1..Len(cs) :
        /\ IsValid(cs[k])
        /\ ~IsEmpty(cs[k])
        /\ TwiceArea(cs[k]) * AreaD > 2 * AreaN
        /\ Len(cs[k]) <= MaxSides }

\* the i-th smallest element of a set of numbers
Ith(S, i) == CHOOSE k \in S : Cardinality({ j \in S : j <= k }) = i

\* C16: the validator keeps a face exactly when its polygon is simple, is not
\* empty, has an area above the tolerance and has at most MaxSides vertices;
\* it raises for no face; the faces it keeps are in the order they were found.
C16_ValidatorKeepsExactly ==
    pc = "denest" =>
        /\ Len(valid_polygons) = Cardinality(Passing(cycles))
        /\ \A i \in 1..Len(valid_polygons) :
             valid_polygons[i] = cycles[Ith(Passing(cycles), i)]

\* two different faces are kept
C16_Witness ==
    /\ pc = "denest"
    /\ Len(valid_polygons) = 2
    /\ valid_polygons[1] # valid_polygons[2]

\* the area of the ring is greater than the square of the tolerance
AreaAboveTolSquared(c) == TwiceArea(c) * LinD * LinD > 2 * LinN * LinN

\* C17: every polygon find_polygons returns has an area greater than the
\* square of the tolerance, and every simple face of 3 to MaxSides vertices
\* whose area is greater than the square of the tolerance passes validation.
C17_AreaAboveTolSquared ==
    /\ pc = "done" => \A k \in 1..Len(result) : AreaAboveTolSquared(result[k])
    /\ pc = "denest" =>
         \A k \in 1..Len(cycles) :
             (/\ IsValid(cycles[k])
              /\ 3 <= Len(cycles[k]) /\ Len(cycles[k]) <= MaxSides
              /\ AreaAboveTolSquared(cycles[k]))
                 => cycles[k] \in Elems(valid_polygons)

\* the positions of the polygons that no polygon at another position contains
Uncontained(ps) ==
    { k \in 1..Len(ps) : \A j \in 1..Len(ps) : j = k \/ ~Contains(ps[j], ps[k]) }

\* the two unit squares that lie apart from each other
TwoApart == Square(0, 0, 10) \o Square(20, 0, 10)

\* C18: de-nesting drops a validated polygon exactly when a validated polygon
\* at another position contains it; the others are returned in the order they
\* had; two squares that share no edge and do not intersect are both returned.
C18_DenestDropsContained ==
    pc = "done" =>
        /\ Len(result) = Cardinality(Uncontained(valid_polygons))
        /\ \A i \in 1..Len(result) :
             result[i] = valid_polygons[Ith(Uncontained(valid_polygons), i)]
        /\ line_segments = TwoApart => Len(result) = 2

\* of two validated polygons the second, which the first contains, is dropped
C18_Witness ==
    /\ pc = "done"
    /\ Len(valid_polygons) = 2
    /\ Contains(valid_polygons[1], valid_polygons[2])
    /\ result = <<valid_polygons[1]>>

\* the integer part of the square root of n, found between lo and hi
RECURSIVE IsqrtIn(_, _, _)
IsqrtIn(n, lo, hi) ==
    IF lo >= hi THEN lo
    ELSE LET mid == (lo + hi + 1) \div 2
         IN IF mid * mid <= n THEN IsqrtIn(n, mid, hi) ELSE IsqrtIn(n, lo, mid - 1)
Isqrt(n) == IsqrtIn(n, 0, 46340)

\* lengths are compared in hundredths of the tolerance
LenScale == 10

\* a lower bound of the length of the edge between two nodes
EdgeLower(a, b) ==
    Isqrt(LenScale * LenScale * ((a[1] - b[1]) * (a[1] - b[1]) + (a[2] - b[2]) * (a[2] - b[2])))

\* an upper bound of the length of a segment between two raw points
SegUpper(seg) ==
    LET L == Lcm(seg[1][3], seg[2][3])
    IN Isqrt((LenScale * LenScale * Dist2(seg[1], seg[2], L)) \div (L * L)) + 1

RECURSIVE PerimeterLower(_, _)
PerimeterLower(c, k) ==
    IF k > Len(c) THEN 0
    ELSE EdgeLower(c[k], c[Nxt(k, Len(c))]) + PerimeterLower(c, k + 1)

RECURSIVE FacesLower(_, _)
FacesLower(cs, k) ==
    IF k > Len(cs) THEN 0 ELSE PerimeterLower(cs[k], 1) + FacesLower(cs, k + 1)

RECURSIVE SplitUpper(_, _)
SplitUpper(segs, k) ==
    IF k > Len(segs) THEN 0 ELSE SegUpper(segs[k]) + SplitUpper(segs, k + 1)

\* C19: when the extraction pass has finished, the perimeters of the faces it
\* found, measured between their graph nodes, add up to no more than the
\* lengths of the split segments add up to.  (The sum of the perimeters is
\* bounded from below, the sum of the lengths from above.)
C19_PerimeterWithinSplitLength ==
    pc = "validate" => FacesLower(cycles, 1) <= SplitUpper(split_segments, 1)

\* C20: a find_polygons invocation that is interleaved, at the boundaries of
\* the pipeline stages, with a second invocation on the same processor returns
\* the polygons it returns when it runs alone (here: the polygons the first,
\* uninterrupted run of the same input returned).
C20_InterleavedSameResult ==
    (pc = "done" /\ calls > 1 /\ line_segments = first /\ other # "idle")
        => Elems(result) = Elems(first_result)

\* the walk stands at a node with an unmarked edge to its start, three or more
\* nodes on its path
ClosesNow ==
    /\ pc = "walk"
    /\ Len(path) >= 3
    /\ path[1] \in Elems(Neighbors(graph, path[Len(path)]))
    /\ EdgeKey(path[Len(path)], path[1]) \notin visited_edges

\* the edges between consecutive nodes of the path
ConsecutiveEdges == { EdgeKey(path[k], path[k + 1]) : k \in 1..(Len(path) - 1) }

\* a neighbor the walk could move on to from its current node
OtherWayOn ==
    \E nb \in Elems(Neighbors(graph, path[Len(path)])) :
        nb \notin Elems(path) /\ EdgeKey(path[Len(path)], nb) \notin visited_edges

\* C21: a walk whose current node has an unmarked edge to the start of the walk
\* and whose path holds three nodes or more closes at its next step, whatever
\* other neighbors the current node offers: the step marks exactly the edges
\* between consecutive path nodes and the closing edge, and appends the path to
\* the faces found.  A walk with a path of two nodes does not close: its next
\* step marks no edge and adds no face.
C21_WalkClosesAtStart ==
    [][ /\ ClosesNow =>
            /\ pc' = "scan"
            /\ cycles' = Append(cycles, path)
            /\ visited_edges' = visited_edges \cup ConsecutiveEdges
                                    \cup {EdgeKey(path[Len(path)], path[1])}
        /\ (pc = "walk" /\ Len(path) = 2) =>
            /\ cycles' = cycles
            /\ visited_edges' = visited_edges ]_vars

\* a walk has just closed although its last node had another way on
C21_Witness ==
    /\ pc = "scan"
    /\ cycles # <<>>
    /\ cycles[Len(cycles)] = path
    /\ ConsecutiveEdges \subseteq visited_edges
    /\ OtherWayOn

\* the walk stands at a node it can neither close from nor move on from
Stuck == pc = "walk" /\ ~ClosesNow /\ ~OtherWayOn

\* C22: a walk that stands at a node with no eligible neighbor and no closure
\* ends at its next step without a face and without marking an edge; no step
\* that keeps a walk going marks an edge, so the visited edges are then the
\* ones they were when the walk started; and the path of every walk begins
\* anew as the two nodes of its start entry, whatever path an earlier walk left.
C22_AbandonLeavesNoTrace ==
    [][ /\ Stuck =>
            /\ pc' = "scan"
            /\ visited_edges' = visited_edges
            /\ cycles' = cycles
        /\ (pc = "walk" /\ pc' = "walk") => visited_edges' = visited_edges
        /\ (pc = "scan" /\ pc' = "walk") => path' = <<start_node, neighbor>> ]_vars

\* a walk of three nodes or more was abandoned after an earlier walk closed:
\* none of its edges is marked
C22_Witness ==
    /\ pc = "scan"
    /\ Len(path) >= 3
    /\ cycles # <<>>
    /\ ConsecutiveEdges \cap visited_edges = {}

\* the direction the walk with path p came in by; the angle of a null vector
\* is the angle of the positive x axis
Incoming(p) ==
    LET v == <<p[Len(p)][1] - p[Len(p) - 1][1], p[Len(p)][2] - p[Len(p) - 1][2]>>
    IN IF v = <<0, 0>> THEN <<1, 0>> ELSE v

\* from the end of path p, the turn to node a is smaller than the turn to node b
SmallerTurn(p, a, b) ==
    LET cur == p[Len(p)]
    IN AngleLess(Incoming(p), <<a[1] - cur[1], a[2] - cur[2]>>,
                              <<b[1] - cur[1], b[2] - cur[2]>>)

\* n is the eligible neighbor of least turn at the end of path p, and the first
\* in adjacency order of those of least turn
LeastTurnFirst(p, n) ==
    LET E == EligibleNeighbors(graph, p, visited_edges)
    IN \E k \in DOMAIN E :
          /\ E[k] = n
          /\ \A j \in DOMAIN E : ~SmallerTurn(p, E[j], n)
          /\ \A j \in 1..(k - 1) : SmallerTurn(p, n, E[j])

\* C23: a walk at a node it cannot close from, with eligible neighbors, moves on
\* to the eligible neighbor whose (outgoing angle - incoming angle) mod 2 pi is
\* the smallest; of several with the same smallest angle it takes the first in
\* the adjacency order of the node, and a single eligible neighbor is taken.
C23_LeastTurnFirstInOrder ==
    [][ (pc = "walk" /\ ~ClosesNow /\ OtherWayOn) =>
            /\ pc' = "walk"
            /\ \E n \in Elems(EligibleNeighbors(graph, path, visited_edges)) :
                  /\ path' = Append(path, n)
                  /\ LeastTurnFirst(path, n)
                  /\ Len(EligibleNeighbors(graph, path, visited_edges)) = 1
                        => n = EligibleNeighbors(graph, path, visited_edges)[1] ]_vars

\* the walk has just moved on from a node where two eligible neighbors had the
\* same smallest angle and a third neighbor a larger one
C23_Witness ==
    /\ pc = "walk"
    /\ Len(path) >= 3
    /\ LET p == SubSeq(path, 1, Len(path) - 1)
           E == EligibleNeighbors(graph, p, visited_edges)
       IN /\ \E j \in DOMAIN E :
                /\ E[j] # path[Len(path)]
                /\ ~SmallerTurn(p, path[Len(path)], E[j])
          /\ \E j \in DOMAIN E : SmallerTurn(p, path[Len(path)], E[j])

\* entry c of the adjacency structure comes before entry d
CursorLess(c, d) == c[1] < d[1] \/ (c[1] = d[1] /\ c[2] < d[2])

\* the extraction pass is running
Extracting == pc \in {"scan", "walk"}

\* a node with the same neighbor twice in its adjacency list
HasParallelEdges(g) ==
    \E k \in 1..Len(g.keys) :
        \E i, j \in DOMAIN g.adj[k] : i < j /\ g.adj[k][i] = g.adj[k][j]

\* C24: the extraction pass terminates.  Every extension of a walk adds a node
\* that is not on its path, so a walk has been extended at most as often as the
\* graph has nodes; a walk starts at the entry of the adjacency structure the
\* scan is at, and the scan moves to a later entry whenever it skips an entry
\* or a walk ends, so no entry starts two walks; the pass can always take a
\* step, and every step of it lowers a rank over the natural numbers.
C24_ExtractionTerminates ==
    /\ [](pc = "walk" => Len(path) - 2 <= Len(graph.keys))
    /\ [](Extracting => CanStep /\ Rank \in Nat \X Nat \X Nat)
    /\ [][ /\ Extracting => RankLess(Rank', Rank)
           /\ (pc = "walk" /\ pc' = "walk") =>
                 \E n \in Elems(graph.keys) \ Elems(path) : path' = Append(path, n)
           /\ (pc = "scan" /\ pc' = "walk") => (AtEntry /\ cursor' = cursor)
           /\ (Extracting /\ pc' = "scan") => CursorLess(cursor, cursor') ]_vars

\* the pass has ended on a graph with a self-loop, parallel edges and a cycle
\* that a face was found on
C24_Witness ==
    /\ pc = "validate"
    /\ HasSelfLoop(graph)
    /\ HasParallelEdges(graph)
    /\ cycles # <<>>

\* the two segments have an endpoint in common
SharesEndpoint(seg1, seg2) == {seg1[1], seg1[2]} \cap {seg2[1], seg2[2]} # {}

\* C25: the intersector examines a pair of segments once, reports nothing when
\* |denom| < tolerance, and otherwise reports the crossing point exactly when t
\* and u lie in [0, 1], the ends included: two segments with a common endpoint
\* whose denom is not under the tolerance, whose t and u are therefore 0 or 1,
\* yield an intersection point.
C25_SharedEndpointYieldsPoint ==
    (/\ pc = "split"
     /\ Len(segments) = 2
     /\ SharesEndpoint(segments[1], segments[2])
     /\ _line_intersection(segments[1], segments[2]) \notin {None, ZeroDivisionError})
        => intersections # {}

\* C26: every segment the splitter puts out is longer than the tolerance, and
\* an input segment that is not longer than the tolerance contributes no
\* segment to the output.
C26_ShortSegmentsContributeNothing ==
    pc = "graph" =>
        /\ \A k \in DOMAIN split_segments :
              LongerThanTol(split_segments[k][1], split_segments[k][2])
        /\ \A k \in DOMAIN segments :
              ~LongerThanTol(segments[k][1], segments[k][2])
                  => SubSegments(segments[k], intersections) = <<>>

\* the undirected edges on the boundaries of the faces found so far
EmittedEdges == UNION { FaceEdges(cycles[k]) : k \in 1..Len(cycles) }

\* C27: during the extraction pass the visited edges are exactly the edges on
\* the boundaries of the faces found so far.  The set is empty when the pass
\* begins, it never loses an edge, and it changes only in a step that closes a
\* walk.  A marked edge is not used again: no walk starts on it, no walk moves
\* along it and no walk closes over it.
C27_VisitedEdgesAreFaceEdges ==
    /\ [](Extracting => visited_edges = EmittedEdges)
    /\ [][ /\ pc = "graph" => visited_edges' = {}
           /\ Extracting =>
                 /\ visited_edges \subseteq visited_edges'
                 /\ visited_edges' # visited_edges =>
                       /\ ClosesNow
                       /\ cycles' = Append(cycles, path)
                       /\ EdgeKey(path[Len(path)], path[1]) \notin visited_edges
           /\ (pc = "scan" /\ pc' = "walk") =>
                 EdgeKey(path'[1], path'[2]) \notin visited_edges
           /\ (pc = "walk" /\ pc' = "walk") =>
                 EdgeKey(path[Len(path)], path'[Len(path')]) \notin visited_edges ]_vars

\* between two walks, with a face found, the scan is at an entry whose edge is
\* marked
C27_Witness ==
    /\ pc = "scan"
    /\ cycles # <<>>
    /\ AtEntry
    /\ EdgeKey(start_node, neighbor) \in visited_edges
    /\ visited_edges = EmittedEdges

\* C28: de-nesting is one pass in which every validated polygon is tested
\* against all the others, dropped ones included.  Of three validated polygons
\* of which the second contains the first and the third the second, neither the
\* first nor the second is returned; two validated polygons that contain each
\* other are both dropped, and nothing is returned when these are all there are.
C28_DenestSinglePass ==
    pc = "done" =>
        LET ps == valid_polygons
            n  == Len(valid_polygons)
        IN /\ \A i \in 1..n :
                 ps[i] \in Elems(result)
                    <=> \A j \in 1..n : j = i \/ ~Contains(ps[j], ps[i])
           /\ \A i, j, k \in 1..n :
                 (Contains(ps[j], ps[i]) /\ Contains(ps[k], ps[j]) /\ i # j /\ j # k /\ i # k)
                    => (ps[i] \notin Elems(result) /\ ps[j] \notin Elems(result))
           /\ \A i, j \in 1..n :
                 (i # j /\ Contains(ps[j], ps[i]) /\ Contains(ps[i], ps[j]))
                    => (ps[i] \notin Elems(result) /\ ps[j] \notin Elems(result)
                        /\ (n = 2 => result = <<>>))

\* two validated polygons that contain each other: nothing was returned
C28_Witness ==
    /\ pc = "done"
    /\ Len(valid_polygons) = 2
    /\ Contains(valid_polygons[1], valid_polygons[2])
    /\ Contains(valid_polygons[2], valid_polygons[1])
    /\ result = <<>>

=============================================================================
